---- MODULE Spec2Model ----
(***************************************************************************)
(* food-analyzer-mcp: a Deno.serve handler that answers JSON-RPC (MCP)     *)
(* requests and a legacy {image} request, forwarding images to a vision    *)
(* endpoint (src/src/index.ts).                                            *)
(*                                                                         *)
(* JavaScript values are records tagged with their type, so that any two   *)
(* values can be compared: undefined, null, strings, numbers, booleans,    *)
(* arrays and objects (a function from the present keys to values).        *)
(***************************************************************************)
EXTENDS Integers, Sequences, FiniteSets, TLC

VARIABLES
    OPENAI_API_KEY, \* module-level constant read from the environment at startup
    request,        \* request[c]: the HTTP request client c sent, or NoRequest
    pc,             \* pc[c]: where the handler invocation for c stands
    body,           \* body[c]: the handler's local `body` (the parsed JSON)
    caller,         \* caller[c]: which call site awaits analyzeFoodImage
    outbound,       \* outbound[c]: the requests the invocation sent to the vision endpoint
    settled,        \* settled[c]: what the network delivered to the invocation's awaits
    responses       \* responses[c]: the HTTP responses sent back to client c

vars == <<OPENAI_API_KEY, request, pc, body, caller, outbound, settled, responses>>

----------------------------------------------------------------------------
(* Bounds *)

MaxClients == 2

Clients == 1..MaxClients

----------------------------------------------------------------------------
(* JavaScript values *)

Undefined == [type |-> "undefined"]
Null == [type |-> "null"]
Str(s) == [type |-> "string", s |-> s]
Num(n) == [type |-> "number", n |-> n]
Bool(b) == [type |-> "boolean", b |-> b]
Arr(items) == [type |-> "array", items |-> items]
Obj(fields) == [type |-> "object", fields |-> fields]
EmptyObj == Obj([k \in {} |-> Undefined])

\* o.k : undefined for a missing key and for a primitive receiver.  (A null or
\* undefined receiver throws; the callers test IsNullish first.)
Get(o, k) ==
    IF o.type = "object" /\ k \in DOMAIN o.fields THEN o.fields[k] ELSE Undefined

IsNullish(v) == v.type \in {"undefined", "null"}

\* o?.k
OptGet(o, k) == IF IsNullish(o) THEN Undefined ELSE Get(o, k)

\* a?.[0]
OptFirst(a) ==
    IF a.type = "array" /\ Len(a.items) > 0 THEN a.items[1] ELSE Undefined

\* !!v.  A string is either a literal (field s) or a text made of chunks or of
\* a serialised value, which is empty only when it has no chunk.
Truthy(v) ==
    CASE v.type \in {"undefined", "null"} -> FALSE
      [] v.type = "boolean" -> v.b
      [] v.type = "number" -> v.n # 0
      [] v.type = "string" ->
            IF "s" \in DOMAIN v THEN v.s # ""
            ELSE IF "chunks" \in DOMAIN v THEN v.chunks # <<>>
            ELSE TRUE
      [] OTHER -> TRUE

\* JSON.stringify(v) seen as the JSON document it writes: keys whose value is
\* undefined are dropped, at every depth.
RECURSIVE JSONstringify(_)
JSONstringify(v) ==
    CASE v.type = "object" ->
            LET keep == {k \in DOMAIN v.fields : v.fields[k].type # "undefined"}
            IN  Obj([k \in keep |-> JSONstringify(v.fields[k])])
      [] v.type = "array" ->
            Arr([i \in 1..Len(v.items) |-> JSONstringify(v.items[i])])
      [] OTHER -> v

\* JSON.stringify(v, null, 2): the string holding the document indented by 2.
JSONstringifyPretty(v) == [type |-> "string", json |-> JSONstringify(v), space |-> 2]

\* A returned value and a thrown Error.
Return(v) == [threw |-> FALSE, value |-> v]
Throw(m) == [threw |-> TRUE, message |-> m]

----------------------------------------------------------------------------
(* analyzeFoodImage, lines 29-71 *)

\* The string the model replied with, as the chunks it is made of.
Text(chunks) == [type |-> "string", chunks |-> chunks]

\* What the pattern of line 69 matches: a code fence (three backquotes), with
\* or without the word json, with or without the newline after it.
Fences == {"<fence>json<LF>", "<fence>json", "<fence><LF>", "<fence>"}

Whitespace == {"<LF>", "<SP>"}

\* The JSON documents a chunk can hold, with the value JSON.parse gives.
Apple ==
    Obj([name |-> Str("Apple"), calories |-> Num(95), ingredients |-> Null])
Salad ==
    Obj([name |-> Str("Salad"), calories |-> Num(150),
         ingredients |-> Arr(<<Str("lettuce"), Str("tomato")>>)])
Documents == ("{apple}" :> Apple) @@ ("{salad}" :> Salad) @@ ("null" :> Null)

RECURSIVE TrimStart(_)
TrimStart(chunks) ==
    IF chunks # <<>> /\ Head(chunks) \in Whitespace
    THEN TrimStart(Tail(chunks)) ELSE chunks

RECURSIVE TrimEnd(_)
TrimEnd(chunks) ==
    IF chunks # <<>> /\ chunks[Len(chunks)] \in Whitespace
    THEN TrimEnd(SubSeq(chunks, 1, Len(chunks) - 1)) ELSE chunks

\* content.replace(<fences>, "").trim(), line 69
CleanContent(content) ==
    Text(TrimEnd(TrimStart(SelectSeq(content.chunks, LAMBDA ch : ch \notin Fences))))

\* JSON.parse(text), line 70
JSONparse(text) ==
    IF text.chunks = <<>> THEN Throw("Unexpected end of JSON input")
    ELSE IF Len(text.chunks) = 1 /\ text.chunks[1] \in DOMAIN Documents
    THEN Return(Documents[text.chunks[1]])
    ELSE Throw("Unexpected token in JSON")

\* The request fetch sends, lines 30-55.
VisionRequest(url, key) ==
    [url |-> "https://api.openai.com/v1/chat/completions",
     method |-> "POST",
     authorization |-> "Bearer " \o key,
     model |-> "gpt-4o",
     image_url |-> url,
     max_tokens |-> 800]

\* response.ok
ResponseOk(status) == status >= 200 /\ status <= 299

\* "await fetch(...)" settles, lines 30 and 57-59.  Return(Undefined) stands
\* for going on to "await response.json()".
AfterFetch(s) ==
    IF s.kind = "rejected" THEN Throw("fetch failed")
    ELSE IF ~ResponseOk(s.status)
    THEN Throw("OpenAI API error: " \o ToString(s.status))
    ELSE Return(Undefined)

\* data.choices?.[0]?.message?.content, line 62 (data is not null here)
ExtractContent(data) ==
    OptGet(OptGet(OptFirst(Get(data, "choices")), "message"), "content")

\* "await response.json()" settles, lines 61-70.
AfterJson(s) ==
    IF s.kind = "rejected" THEN Throw("Unexpected token in JSON")
    ELSE IF IsNullish(s.data)
    THEN Throw("Cannot read properties of null (reading 'choices')")
    ELSE LET content == ExtractContent(s.data)
         IN  IF ~Truthy(content) THEN Throw("No content in OpenAI response")
             ELSE IF ~("chunks" \in DOMAIN content)
             THEN Throw("content.replace is not a function")
             ELSE JSONparse(CleanContent(content))

----------------------------------------------------------------------------
(* handleMCPRequest, lines 74-153 *)

\* ${v} in a template literal
TemplateString(v) ==
    CASE v.type = "string" /\ "s" \in DOMAIN v -> v.s
      [] v.type = "undefined" -> "undefined"
      [] v.type = "null" -> "null"
      [] OTHER -> "[value]"

ToolDescriptor ==
    Obj([name |-> Str("analyze_food_image"),
         description |-> Str("Analyzes a food image and returns detailed nutritional information"),
         inputSchema |-> Obj([type |-> Str("object"),
                              properties |-> Obj([imageUrl |-> Obj([type |-> Str("string")])]),
                              required |-> Arr(<<Str("imageUrl")>>)])])

handleMCPRequest(req) ==
    LET jsonrpc == Get(req, "jsonrpc")
        id == Get(req, "id")
        method == Get(req, "method")
        params == Get(req, "params")
    IN  IF jsonrpc # Str("2.0")
        THEN Obj([jsonrpc |-> Str("2.0"), id |-> id,
                  error |-> Obj([code |-> Num(-32600),
                                 message |-> Str("Invalid Request: jsonrpc must be 2.0")])])
        ELSE CASE method = Str("initialize") ->
                    Obj([jsonrpc |-> Str("2.0"), id |-> id,
                         result |-> Obj([protocolVersion |-> Str("2024-11-05"),
                                         capabilities |-> Obj([tools |-> EmptyObj]),
                                         serverInfo |-> Obj([name |-> Str("food-analyzer-mcp"),
                                                             version |-> Str("1.0.0")])])])
               [] method = Str("tools/list") ->
                    Obj([jsonrpc |-> Str("2.0"), id |-> id,
                         result |-> Obj([tools |-> Arr(<<ToolDescriptor>>)])])
               [] method = Str("tools/call") ->
                    Obj([jsonrpc |-> Str("2.0"), id |-> id,
                         result |-> Obj([_async |-> Bool(TRUE),
                                         toolName |-> OptGet(params, "name"),
                                         arguments |-> OptGet(params, "arguments")])])
               [] OTHER ->
                    Obj([jsonrpc |-> Str("2.0"), id |-> id,
                         error |-> Obj([code |-> Num(-32601),
                                        message |-> Str("Method not found: "
                                                        \o TemplateString(method))])])

----------------------------------------------------------------------------
(* The Deno.serve handler, lines 156-292 *)

\* new Response(body, init): the status is 200 unless init gives one.
NewResponse(b, init) ==
    [status |-> IF "status" \in DOMAIN init THEN init.status ELSE 200,
     headers |-> init.headers,
     body |-> b]

JsonHeaders ==
    ("Content-Type" :> "application/json") @@ ("Access-Control-Allow-Origin" :> "*")

\* lines 159-165
Preflight ==
    NewResponse(Null,
        [headers |-> ("Access-Control-Allow-Origin" :> "*")
                     @@ ("Access-Control-Allow-Methods" :> "POST, GET, OPTIONS")
                     @@ ("Access-Control-Allow-Headers" :> "Content-Type")])

\* lines 185-197
InvalidParams(id) ==
    NewResponse(
        JSONstringify(Obj([jsonrpc |-> Str("2.0"), id |-> id,
                           error |-> Obj([code |-> Num(-32602),
                                          message |-> Str("Invalid params: imageUrl is required")])])),
        [headers |-> JsonHeaders])

\* lines 204-221
ToolSuccess(id, foodData) ==
    NewResponse(
        JSONstringify(Obj([jsonrpc |-> Str("2.0"), id |-> id,
                           result |-> Obj([content |-> Arr(<<Obj([type |-> Str("text"),
                                                                  text |-> JSONstringifyPretty(foodData)])>>),
                                           isError |-> Bool(FALSE)])])),
        [headers |-> JsonHeaders])

\* Mutant: the failure of the tool is reported as a JSON-RPC error object.
ToolFailureAsRpcError(id, message) ==
    NewResponse(
        JSONstringify(Obj([jsonrpc |-> Str("2.0"), id |-> id,
                           error |-> Obj([code |-> Num(-32603),
                                          message |-> Str("Error analyzing food: " \o message)])])),
        [status |-> 200, headers |-> JsonHeaders])

\* lines 222-243
ToolFailure(id, message) ==
    NewResponse(
        JSONstringify(Obj([jsonrpc |-> Str("2.0"), id |-> id,
                           result |-> Obj([content |-> Arr(<<Obj([type |-> Str("text"),
                                                                  text |-> Str("Error analyzing food: " \o message)])>>),
                                           isError |-> Bool(TRUE)])])),
        [status |-> 200, headers |-> JsonHeaders])

\* lines 248-254
McpResponse(req) ==
    NewResponse(JSONstringify(handleMCPRequest(req)), [headers |-> JsonHeaders])

\* Mutant: the legacy answer is wrapped like a tool result.
LegacySuccessWrapped(foodData) ==
    NewResponse(JSONstringify(Obj([result |-> foodData])), [headers |-> JsonHeaders])

\* lines 261-266
LegacySuccess(foodData) ==
    NewResponse(JSONstringify(foodData), [headers |-> JsonHeaders])

\* lines 269-277
BadRequest ==
    NewResponse(JSONstringify(Obj([error |-> Str("Invalid request format")])),
                [status |-> 400, headers |-> JsonHeaders])

\* Mutant: the catch-all answer goes out without the CORS header.
ServerErrorNoCors(message) ==
    NewResponse(JSONstringify(Obj([error |-> Str("Internal server error"),
                                   message |-> Str(message)])),
                [status |-> 500, headers |-> ("Content-Type" :> "application/json")])

\* lines 279-291
ServerError(message) ==
    NewResponse(JSONstringify(Obj([error |-> Str("Internal server error"),
                                   message |-> Str(message)])),
                [status |-> 500, headers |-> JsonHeaders])

\* What the handler answers with, or the call it makes.
Respond(r) == [kind |-> "respond", response |-> r]
Call(site, url) == [kind |-> "call", site |-> site, imageUrl |-> url]

\* Mutant: the tool call does not test imageUrl before calling.
DispatchNoImageUrlCheck(b) ==
    IF IsNullish(b)
    THEN Respond(ServerError("Cannot read properties of null (reading 'jsonrpc')"))
    ELSE IF Get(b, "jsonrpc") = Str("2.0")
    THEN IF /\ Get(b, "method") = Str("tools/call")
            /\ OptGet(Get(b, "params"), "name") = Str("analyze_food_image")
         THEN Call("tool", OptGet(OptGet(Get(b, "params"), "arguments"), "imageUrl"))
         ELSE Respond(McpResponse(b))
    ELSE IF Truthy(Get(b, "image")) THEN Call("legacy", Get(b, "image"))
         ELSE Respond(BadRequest)

\* Lines 173-277, from the parsed body to the first of: a response, a call of
\* analyzeFoodImage.  Reading a property of null throws into the catch of 279.
Dispatch(b) ==
    IF IsNullish(b)
    THEN Respond(ServerError("Cannot read properties of null (reading 'jsonrpc')"))
    ELSE IF Get(b, "jsonrpc") = Str("2.0")
    THEN LET toolName == OptGet(Get(b, "params"), "name")
             args == OptGet(Get(b, "params"), "arguments")
             url == OptGet(args, "imageUrl")
         IN  IF Get(b, "method") = Str("tools/call") /\ toolName = Str("analyze_food_image")
             THEN IF ~Truthy(url) THEN Respond(InvalidParams(Get(b, "id")))
                  ELSE Call("tool", url)
             ELSE Respond(McpResponse(b))
    ELSE LET image == Get(b, "image")
         IN  IF Truthy(image) THEN Call("legacy", image) ELSE Respond(BadRequest)

\* Mutant: the tool call has no try/catch of its own, its failure reaches the
\* catch of line 279.
AfterAnalyzeNoInnerCatch(site, b, outcome) ==
    IF outcome.threw THEN ServerError(outcome.message)
    ELSE IF site = "tool" THEN ToolSuccess(Get(b, "id"), outcome.value)
    ELSE LegacySuccess(outcome.value)

\* What follows analyzeFoodImage at its call site: lines 202-243 for the tool
\* call (its own try/catch), lines 261-266 and 279-291 for the legacy call.
AfterAnalyze(site, b, outcome) ==
    IF site = "tool"
    THEN IF outcome.threw THEN ToolFailure(Get(b, "id"), outcome.message)
         ELSE ToolSuccess(Get(b, "id"), outcome.value)
    ELSE IF outcome.threw THEN ServerError(outcome.message)
         ELSE LegacySuccess(outcome.value)

\* Mutant: response.json() is not awaited, so data is a pending promise,
\* data.choices is undefined and line 65 throws at once.
OnFetchSettledNoAwait(site, b, s) ==
    IF AfterFetch(s).threw THEN Respond(AfterAnalyze(site, b, AfterFetch(s)))
    ELSE Respond(AfterAnalyze(site, b, Throw("No content in OpenAI response")))

AwaitJson == [kind |-> "await-json"]

\* The fetch of analyzeFoodImage settled: it throws to its caller (lines 57-59
\* and the caller's catch), or goes on to "await response.json()" (line 61).
OnFetchSettled(site, b, s) ==
    LET o == AfterFetch(s)
    IN  IF o.threw THEN Respond(AfterAnalyze(site, b, o)) ELSE AwaitJson

\* await req.json(), line 169
ReqJson(raw) ==
    IF raw.syntax = "invalid" THEN Throw("Unexpected token in JSON") ELSE Return(raw.value)

----------------------------------------------------------------------------
(* Inputs: the requests clients send and what the vision endpoint replies *)

ImageA == Str("https://img.example/a.jpg")
ImageB == Str("data:image/jpeg;base64,AAAA")

\* The "arguments" member of params: absent, empty, or holding imageUrl.
ArgumentValues ==
    {Undefined, EmptyObj}
    \cup {Obj([imageUrl |-> u]) : u \in {Str(""), Null, ImageA}}

\* The "params" member: absent, null, or an object with name and arguments
\* (each present or not).
ParamValues ==
    {Undefined, Null}
    \cup {JSONstringify(Obj([name |-> n, arguments |-> a])) :
            n \in {Undefined, Str("analyze_food_image"), Str("other_tool")},
            a \in ArgumentValues}

\* JSON object bodies: every member present or not, as the client's
\* serialiser wrote them (no member is undefined on the wire).
ObjectBodies ==
    {JSONstringify(Obj([jsonrpc |-> j, id |-> i, method |-> m, params |-> p, image |-> g])) :
        j \in {Undefined, Str("2.0"), Str("1.0"), Num(2)},
        i \in {Undefined, Num(1), Str("req-7")},
        m \in {Undefined, Str("initialize"), Str("tools/list"), Str("tools/call"), Str("foo/bar")},
        p \in ParamValues,
        g \in {Undefined, Str(""), ImageB}}

Json(v) == [syntax |-> "json", value |-> v]
NotJson == [syntax |-> "invalid"]

Post(raw) == [method |-> "POST", raw |-> raw]
Options == [method |-> "OPTIONS", raw |-> NotJson]
NoRequest == [method |-> "none", raw |-> NotJson]

\* Every request of the model: the preflight, and POSTs whose body is not
\* JSON, is JSON null, a JSON number, or a JSON object.
Requests ==
    {Options, Post(NotJson), Post(Json(Null)), Post(Json(Num(5)))}
    \cup {Post(Json(o)) : o \in ObjectBodies}

McpCall(id, params) ==
    Post(Json(JSONstringify(Obj([jsonrpc |-> Str("2.0"), id |-> id,
                                 method |-> Str("tools/call"), params |-> params]))))

\* The requests of the concurrent specification: one of each path.
ConcurrentRequests ==
    {Options,
     Post(NotJson),
     Post(Json(Obj([jsonrpc |-> Str("2.0"), id |-> Num(1), method |-> Str("initialize")]))),
     McpCall(Num(1), Obj([name |-> Str("analyze_food_image"),
                          arguments |-> Obj([imageUrl |-> ImageA])])),
     McpCall(Str("req-7"), Obj([name |-> Str("analyze_food_image"),
                               arguments |-> Obj([imageUrl |-> ImageB])])),
     Post(Json(Obj([image |-> ImageB])))}

Rejected == [kind |-> "rejected"]
Resolved(status) == [kind |-> "resolved", status |-> status]
Parsed(data) == [kind |-> "resolved", data |-> data]

\* How "await fetch" settles: a network failure, or a response with a status.
FetchSettles == {Rejected} \cup {Resolved(st) : st \in {200, 401, 500}}

Completion(content) ==
    Obj([choices |-> Arr(<<Obj([message |-> Obj([role |-> Str("assistant"),
                                                  content |-> content])])>>)])

Contents ==
    {Text(ch) : ch \in
        {<<>>,
         <<"{apple}">>,
         <<"<fence>json<LF>", "{apple}", "<LF>", "<fence>">>,
         <<"<fence><LF>", "{salad}", "<fence><LF>">>,
         <<"<SP>", "{salad}", "<LF>">>,
         <<"null">>,
         <<"<fence>json<LF>", "<fence>">>,
         <<"not json">>,
         <<"Here it is:", "<fence>json<LF>", "{apple}", "<fence>">>}}

\* How "await response.json()" settles: the body is not JSON, or it is JSON.
JsonSettles ==
    {Rejected}
    \cup {Parsed(d) : d \in {Null, EmptyObj, Obj([choices |-> Arr(<<>>)])}}
    \cup {Parsed(Completion(c)) : c \in Contents \cup {Null, Num(5)}}

ConcurrentFetchSettles == {Rejected, Resolved(200), Resolved(500)}

ConcurrentJsonSettles ==
    {Parsed(EmptyObj),
     Parsed(Completion(Text(<<"{apple}">>))),
     Parsed(Completion(Text(<<"<fence>json<LF>", "{salad}", "<fence>">>)))}

----------------------------------------------------------------------------
(* The state machine *)

\* Mutant: the declaration is hoisted to module scope, shared by invocations.
SetShared(f, c, v) == [k \in DOMAIN f |-> v]

\* A handler-scoped declaration (const body, and the call site that awaits
\* analyzeFoodImage): each invocation has its own.
SetLocal(f, c, v) == [f EXCEPT ![c] = v]

\* return new Response(...): the one response of the invocation.
Send(c, r) == responses' = [responses EXCEPT ![c] = Append(@, r)]

\* Mutant: the request is sent a second time.
SendFetchTwice(log, c, r) == [log EXCEPT ![c] = Append(Append(@, r), r)]

\* fetch(...) of line 30: one request goes out.
SendFetch(log, c, r) == [log EXCEPT ![c] = Append(@, r)]

Init ==
    /\ OPENAI_API_KEY \in {"", "sk-test"}
    /\ request = [c \in Clients |-> NoRequest]
    /\ pc = [c \in Clients |-> "idle"]
    /\ body = [c \in Clients |-> Undefined]
    /\ caller = [c \in Clients |-> "none"]
    /\ outbound = [c \in Clients |-> <<>>]
    /\ settled = [c \in Clients |-> <<>>]
    /\ responses = [c \in Clients |-> <<>>]

\* A request arrives and the handler runs to its first await: lines 156-169.
Arrive(c, q) ==
    /\ pc[c] = "idle"
    /\ request' = [request EXCEPT ![c] = q]
    /\ IF q.method = "OPTIONS"
       THEN /\ Send(c, Preflight)
            /\ pc' = [pc EXCEPT ![c] = "done"]
       ELSE /\ pc' = [pc EXCEPT ![c] = "body"]
            /\ UNCHANGED responses
    /\ UNCHANGED <<OPENAI_API_KEY, body, caller, outbound, settled>>

\* req.json() settles and the handler runs to a response or to the fetch of
\* analyzeFoodImage: lines 169-277, 30, 279-291.
BodyRead(c) ==
    /\ pc[c] = "body"
    /\ LET parsed == ReqJson(request[c].raw)
       IN  IF parsed.threw
           THEN /\ Send(c, ServerError(parsed.message))
                /\ pc' = [pc EXCEPT ![c] = "done"]
                /\ UNCHANGED <<body, caller, outbound>>
           ELSE LET d == Dispatch(parsed.value)
                IN  /\ body' = SetLocal(body, c, parsed.value)
                    /\ IF d.kind = "respond"
                       THEN /\ Send(c, d.response)
                            /\ pc' = [pc EXCEPT ![c] = "done"]
                            /\ UNCHANGED <<caller, outbound>>
                       ELSE /\ caller' = SetLocal(caller, c, d.site)
                            /\ outbound' = SendFetch(outbound, c,
                                               VisionRequest(d.imageUrl, OPENAI_API_KEY))
                            /\ pc' = [pc EXCEPT ![c] = "fetch"]
                            /\ UNCHANGED responses
    /\ UNCHANGED <<OPENAI_API_KEY, request, settled>>

\* fetch settles: lines 30, 57-59, then 61 or the caller's catch.
FetchSettle(c, s) ==
    /\ pc[c] = "fetch"
    /\ settled' = [settled EXCEPT ![c] = Append(@, s)]
    /\ LET d == OnFetchSettled(caller[c], body[c], s)
       IN  IF d.kind = "respond"
           THEN /\ Send(c, d.response)
                /\ pc' = [pc EXCEPT ![c] = "done"]
           ELSE /\ pc' = [pc EXCEPT ![c] = "json"]
                /\ UNCHANGED responses
    /\ UNCHANGED <<OPENAI_API_KEY, request, body, caller, outbound>>

\* response.json() settles: lines 61-70, then the caller's continuation.
JsonSettle(c, s) ==
    /\ pc[c] = "json"
    /\ settled' = [settled EXCEPT ![c] = Append(@, s)]
    /\ Send(c, AfterAnalyze(caller[c], body[c], AfterJson(s)))
    /\ pc' = [pc EXCEPT ![c] = "done"]
    /\ UNCHANGED <<OPENAI_API_KEY, request, body, caller, outbound>>

\* One request, over every input.
Next ==
    \/ \E q \in Requests : Arrive(1, q)
    \/ BodyRead(1)
    \/ \E s \in FetchSettles : FetchSettle(1, s)
    \/ \E s \in JsonSettles : JsonSettle(1, s)

Spec == Init /\ [][Next]_vars

\* MaxClients requests in flight at once, over one input of each path.
NextConcurrent ==
    \/ \E c \in Clients, q \in ConcurrentRequests : Arrive(c, q)
    \/ \E c \in Clients : BodyRead(c)
    \/ \E c \in Clients, s \in ConcurrentFetchSettles : FetchSettle(c, s)
    \/ \E c \in Clients, s \in ConcurrentJsonSettles : JsonSettle(c, s)

\* The key is whatever the environment held at startup; one value is enough
\* here, the requests being what varies.
InitConcurrent == Init /\ OPENAI_API_KEY = "sk-test"

SpecConcurrent == InitConcurrent /\ [][NextConcurrent]_vars

\* The runtime resumes a handler whose awaited promise has settled, and (the
\* proviso of the liveness claim) every outbound call settles.
Fairness ==
    \A c \in Clients :
        /\ WF_vars(BodyRead(c))
        /\ WF_vars(\E s \in ConcurrentFetchSettles : FetchSettle(c, s))
        /\ WF_vars(\E s \in ConcurrentJsonSettles : JsonSettle(c, s))

FairSpec == SpecConcurrent /\ Fairness

----------------------------------------------------------------------------
(* Reading a state *)

HasKey(o, k) == o.type = "object" /\ k \in DOMAIN o.fields

\* The parsed body of a request; undefined when the body is not JSON.
BodyOf(q) ==
    IF q.method = "POST" /\ q.raw.syntax = "json" THEN q.raw.value ELSE Undefined

Answered(c) == pc[c] = "done"

\* The handler is past its dispatch (lines 173-277): it answered or it called.
Dispatched(c) == pc[c] \in {"fetch", "json", "done"}

Reply(c) == responses[c][1]

IsMcp(b) == Get(b, "jsonrpc") = Str("2.0")

\* A tools/call envelope naming analyze_food_image.
IsAnalyzeCall(b) ==
    /\ IsMcp(b)
    /\ Get(b, "method") = Str("tools/call")
    /\ OptGet(Get(b, "params"), "name") = Str("analyze_food_image")

ImageUrlOf(b) == OptGet(OptGet(Get(b, "params"), "arguments"), "imageUrl")

\* A JSON-RPC error envelope with this code and message.
IsRpcError(doc, code, message) ==
    /\ Get(doc, "jsonrpc") = Str("2.0")
    /\ ~HasKey(doc, "result")
    /\ Get(doc, "error") = Obj([code |-> Num(code), message |-> Str(message)])

\* What analyzeFoodImage returned or threw, from what its awaits were given.
AnalyzeOutcome(hist) ==
    IF AfterFetch(hist[1]).threw THEN AfterFetch(hist[1]) ELSE AfterJson(hist[2])

\* The outbound call of the invocation has completed or failed.
CallSettled(c) ==
    /\ Len(settled[c]) >= 1
    /\ AfterFetch(settled[c][1]).threw \/ Len(settled[c]) = 2

----------------------------------------------------------------------------
(* Claims *)

\* C1 (as claimed): a POST whose JSON body has jsonrpc, id and method, with
\* jsonrpc other than the string "2.0", is answered by a JSON-RPC error
\* envelope of code -32600, whatever the method and the image member.
C1_InvalidVersionGetsInvalidRequest ==
    \A c \in Clients :
        LET b == BodyOf(request[c])
        IN  (/\ Answered(c)
             /\ HasKey(b, "jsonrpc") /\ HasKey(b, "id") /\ HasKey(b, "method")
             /\ Get(b, "jsonrpc") # Str("2.0"))
            => IsRpcError(Reply(c).body, -32600, "Invalid Request: jsonrpc must be 2.0")

\* C2: a request whose parsed body has jsonrpc === "2.0" is answered with
\* status 200 and an envelope with jsonrpc "2.0", the id of the request, and
\* exactly one of result and error.
C2_McpAlwaysEnvelope ==
    \A c \in Clients :
        LET b == BodyOf(request[c])
        IN  (Answered(c) /\ IsMcp(b))
            => /\ Len(responses[c]) = 1
               /\ Reply(c).status = 200
               /\ Get(Reply(c).body, "jsonrpc") = Str("2.0")
               /\ Get(Reply(c).body, "id") = Get(b, "id")
               /\ HasKey(Reply(c).body, "result") # HasKey(Reply(c).body, "error")

\* C2 witness: an MCP tools/call whose vision call failed has been answered.
C2_Witness ==
    \E c \in Clients :
        /\ Answered(c)
        /\ IsAnalyzeCall(BodyOf(request[c]))
        /\ HasKey(BodyOf(request[c]), "id")
        /\ Len(settled[c]) = 1
        /\ Get(Get(Reply(c).body, "result"), "isError") = Bool(TRUE)

\* A tool result with one text item.
ToolResult(text, isError) ==
    Obj([content |-> Arr(<<Obj([type |-> Str("text"), text |-> text])>>),
         isError |-> Bool(isError)])

\* C3: for a tools/call naming analyze_food_image with imageUrl present, once
\* the vision client was invoked and is done: if it failed, the answer is
\* status 200 with a result whose isError is true and whose text is
\* "Error analyzing food: " and the failure message, and no error member; if
\* it succeeded, isError is false and the text is the pretty-printed record.
C3_ToolOutcomeInResult ==
    \A c \in Clients :
        LET b == BodyOf(request[c])
        IN  (/\ Answered(c)
             /\ IsAnalyzeCall(b)
             /\ HasKey(OptGet(Get(b, "params"), "arguments"), "imageUrl")
             /\ outbound[c] # <<>>)
            => LET o == AnalyzeOutcome(settled[c])
                   doc == Reply(c).body
               IN  /\ Reply(c).status = 200
                   /\ ~HasKey(doc, "error")
                   /\ Get(doc, "result") =
                        IF o.threw
                        THEN ToolResult(Str("Error analyzing food: " \o o.message), TRUE)
                        ELSE ToolResult(JSONstringifyPretty(o.value), FALSE)

\* C3 witness: the model replied with the apple record inside a code fence
\* and the tool call was answered with its pretty-printed JSON.
C3_Witness ==
    \E c \in Clients :
        /\ Answered(c)
        /\ IsAnalyzeCall(BodyOf(request[c]))
        /\ Len(settled[c]) = 2
        /\ settled[c][2] = Parsed(Completion(Text(
                <<"<fence>json<LF>", "{apple}", "<LF>", "<fence>">>)))
        /\ Get(Reply(c).body, "result") = ToolResult(JSONstringifyPretty(Apple), FALSE)

\* C4: a tools/call naming analyze_food_image whose imageUrl is missing
\* (also with params.arguments missing) is answered with error -32602 at
\* status 200, and the vision endpoint is not called.
C4_MissingImageUrlIsInvalidParams ==
    \A c \in Clients :
        LET b == BodyOf(request[c])
        IN  (/\ pc[c] \notin {"idle", "body"}
             /\ IsAnalyzeCall(b)
             /\ ImageUrlOf(b) = Undefined)
            => /\ Answered(c)
               /\ outbound[c] = <<>>
               /\ Reply(c).status = 200
               /\ Get(Reply(c).body, "id") = Get(b, "id")
               /\ IsRpcError(Reply(c).body, -32602, "Invalid params: imageUrl is required")

\* C4 witness: such a call without params.arguments has been answered.
C4_Witness ==
    \E c \in Clients :
        /\ Answered(c)
        /\ IsAnalyzeCall(BodyOf(request[c]))
        /\ ~HasKey(Get(BodyOf(request[c]), "params"), "arguments")
        /\ Get(Get(Reply(c).body, "error"), "code") = Num(-32602)

HasHeader(r, name, value) == name \in DOMAIN r.headers /\ r.headers[name] = value

\* C5 (as claimed): every response, the preflight included, carries
\* Content-Type: application/json and Access-Control-Allow-Origin: *.
C5_EveryResponseBothHeaders ==
    \A c \in Clients : \A i \in 1..Len(responses[c]) :
        /\ HasHeader(responses[c][i], "Content-Type", "application/json")
        /\ HasHeader(responses[c][i], "Access-Control-Allow-Origin", "*")

\* C5 (amended): every response carries Access-Control-Allow-Origin: *; every
\* response but the OPTIONS preflight carries Content-Type: application/json,
\* and the preflight carries no Content-Type.
C5_CorsAlwaysContentTypeButPreflight ==
    \A c \in Clients : \A i \in 1..Len(responses[c]) :
        /\ HasHeader(responses[c][i], "Access-Control-Allow-Origin", "*")
        /\ IF request[c].method = "OPTIONS"
           THEN "Content-Type" \notin DOMAIN responses[c][i].headers
           ELSE HasHeader(responses[c][i], "Content-Type", "application/json")

\* C5 witness: a body that is not JSON was answered with status 500.
C5_Witness ==
    \E c \in Clients :
        /\ Answered(c)
        /\ request[c] = Post(NotJson)
        /\ Reply(c).status = 500
        /\ HasHeader(Reply(c), "Access-Control-Allow-Origin", "*")

\* The request has a JSON body that is not an MCP envelope.
IsLegacy(q) == q.method = "POST" /\ q.raw.syntax = "json" /\ ~IsMcp(q.raw.value)

ErrorBody(message) ==
    Obj([error |-> Str("Internal server error"), message |-> Str(message)])

\* The answer of the legacy path to a body with this image: the vision
\* endpoint was called once with it, and the record comes back as the body
\* with status 200, or its failure with status 500.
LegacyAnalyzed(c, image) ==
    /\ outbound[c] = <<VisionRequest(image, OPENAI_API_KEY)>>
    /\ LET o == AnalyzeOutcome(settled[c])
       IN  IF o.threw
           THEN Reply(c).status = 500 /\ Reply(c).body = ErrorBody(o.message)
           ELSE Reply(c).status = 200 /\ Reply(c).body = JSONstringify(o.value)

LegacyRejected(c) ==
    /\ outbound[c] = <<>>
    /\ Reply(c).status = 400
    /\ Reply(c).body = Obj([error |-> Str("Invalid request format")])

\* C6 (as claimed): for a body that is not an MCP envelope, an image member
\* means the vision client is called with it (record verbatim at status 200,
\* or status 500 with the exception message); no image member means status
\* 400 "Invalid request format" and no outbound call.
C6_LegacyByImageMember ==
    \A c \in Clients :
        (Answered(c) /\ IsLegacy(request[c]))
        => IF HasKey(BodyOf(request[c]), "image")
           THEN LegacyAnalyzed(c, Get(BodyOf(request[c]), "image"))
           ELSE LegacyRejected(c)

\* C6 (amended): for a JSON body other than null that is not an MCP envelope,
\* a truthy image member (not "", null, 0 or false) means the vision client is
\* called with it; an absent or falsy image means status 400 and no outbound
\* call.  A JSON null body is answered with status 500 and no outbound call.
C6_LegacyByTruthyImage ==
    \A c \in Clients :
        LET b == BodyOf(request[c])
        IN  (Answered(c) /\ IsLegacy(request[c]))
            => IF IsNullish(b)
               THEN /\ outbound[c] = <<>>
                    /\ Reply(c).status = 500
                    /\ Get(Reply(c).body, "error") = Str("Internal server error")
               ELSE IF Truthy(Get(b, "image"))
               THEN LegacyAnalyzed(c, Get(b, "image"))
               ELSE LegacyRejected(c)

\* C6 witness: a legacy body with an image was answered with the salad
\* record, which the model had wrapped in a code fence.
C6_Witness ==
    \E c \in Clients :
        /\ Answered(c)
        /\ IsLegacy(request[c])
        /\ Get(BodyOf(request[c]), "image") = ImageB
        /\ Len(settled[c]) = 2
        /\ Reply(c).status = 200
        /\ Reply(c).body = Salad

\* The bodies for which the claim expects one outbound call: a tools/call of
\* analyze_food_image with imageUrl present, a legacy body with image present.
CallClaimed(q) ==
    LET b == BodyOf(q)
    IN  \/ IsAnalyzeCall(b) /\ HasKey(OptGet(Get(b, "params"), "arguments"), "imageUrl")
        \/ IsLegacy(q) /\ HasKey(b, "image")

\* The same with "present" read as truthy.
CallExpected(q) ==
    LET b == BodyOf(q)
    IN  \/ IsAnalyzeCall(b) /\ Truthy(ImageUrlOf(b))
        \/ IsLegacy(q) /\ ~IsNullish(b) /\ Truthy(Get(b, "image"))

\* C8 (as claimed): a request makes at most one outbound call, none is
\* retried; one call once the handler has dispatched a tools/call of
\* analyze_food_image with imageUrl present or a legacy body with an image
\* member, none for every other request.
C8_OneCallWhenPresent ==
    \A c \in Clients :
        Len(outbound[c]) = IF Dispatched(c) /\ CallClaimed(request[c]) THEN 1 ELSE 0

\* C8 (amended): the same, with one call exactly when imageUrl (or image) is
\* truthy, none when it is absent or falsy ("", null, 0, false).
C8_OneCallWhenTruthy ==
    \A c \in Clients :
        Len(outbound[c]) = IF Dispatched(c) /\ CallExpected(request[c]) THEN 1 ELSE 0

\* C8 witness: a tool call whose fetch failed was answered, one call made.
C8_Witness ==
    \E c \in Clients :
        /\ Answered(c)
        /\ IsAnalyzeCall(BodyOf(request[c]))
        /\ settled[c] = <<Rejected>>
        /\ Len(outbound[c]) = 1

\* C9 (as claimed): the result sent for a tools/call has a content array and
\* a boolean isError; the {_async, toolName, arguments} placeholder of
\* handleMCPRequest is never sent.
C9_ToolsCallResultShape ==
    \A c \in Clients :
        LET b == BodyOf(request[c])
        IN  (/\ Answered(c)
             /\ IsMcp(b)
             /\ Get(b, "method") = Str("tools/call")
             /\ HasKey(Reply(c).body, "result"))
            => LET r == Get(Reply(c).body, "result")
               IN  /\ Get(r, "content").type = "array"
                   /\ Get(r, "isError").type = "boolean"
                   /\ ~HasKey(r, "_async")

\* The handler run alone on request q, its awaits being given hist: the
\* response it sends.
Alone(q, hist) ==
    IF q.method = "OPTIONS" THEN Preflight
    ELSE LET parsed == ReqJson(q.raw)
         IN  IF parsed.threw THEN ServerError(parsed.message)
             ELSE LET d == Dispatch(parsed.value)
                  IN  IF d.kind = "respond" THEN d.response
                      ELSE AfterAnalyze(d.site, parsed.value, AnalyzeOutcome(hist))

\* The handler run alone on request q: the outbound calls it makes.
AloneCalls(q, key) ==
    IF q.method = "OPTIONS" \/ ReqJson(q.raw).threw THEN <<>>
    ELSE LET d == Dispatch(ReqJson(q.raw).value)
         IN  IF d.kind = "call" THEN <<VisionRequest(d.imageUrl, key)>> ELSE <<>>

\* What an invocation holds: its request, its locals, its calls, its answer.
Invocation(c) ==
    <<request[c], body[c], caller[c], outbound[c], settled[c], responses[c]>>

\* C7: with several requests in flight and their calls settling in any order,
\* each response is the one the handler gives to that request alone with the
\* outcome of its own call, each outbound call carries that request's own
\* image, a step of one invocation leaves what the others hold unchanged,
\* and the module-level key is never written.
C7_RequestsIndependent ==
    /\ [](\A c \in Clients :
            /\ Answered(c) => responses[c] = <<Alone(request[c], settled[c])>>
            /\ Dispatched(c) => outbound[c] = AloneCalls(request[c], OPENAI_API_KEY))
    /\ [][/\ OPENAI_API_KEY' = OPENAI_API_KEY
          /\ \A c \in Clients : pc'[c] = pc[c] => Invocation(c)' = Invocation(c)]_vars

\* C7 witness: two tool calls with different ids are in flight, the first
\* answered while the second still awaits the body of its vision response.
C7_Witness ==
    \E c1, c2 \in Clients :
        /\ c1 # c2
        /\ IsAnalyzeCall(BodyOf(request[c1])) /\ IsAnalyzeCall(BodyOf(request[c2]))
        /\ Get(BodyOf(request[c1]), "id") # Get(BodyOf(request[c2]), "id")
        /\ Answered(c1) /\ Len(settled[c1]) = 2
        /\ pc[c2] = "json"

\* C10: every request that arrived is eventually answered, given that its
\* outbound call settles; it is answered once and the answer never changes;
\* and a request that made an outbound call is answered only after the call
\* completed or failed (so never, if the call never settles).  A request that
\* arrived stays arrived and an answer stays, so "arrived leads to answered"
\* is: infinitely often, not arrived or answered.
C10_AnsweredOnceAfterCall ==
    /\ [](\A c \in Clients :
            /\ Len(responses[c]) = IF Answered(c) THEN 1 ELSE 0
            /\ (responses[c] # <<>> /\ outbound[c] # <<>>) => CallSettled(c))
    /\ [][\A c \in Clients : responses[c] # <<>> => responses'[c] = responses[c]]_vars
    /\ [][\A c \in Clients : pc[c] # "idle" => pc'[c] # "idle"]_vars
    /\ \A c \in Clients : []<>(pc[c] = "idle" \/ Len(responses[c]) = 1)

\* C10 witness: a request that called the vision endpoint was answered after
\* both awaits of the call had settled.
C10_Witness ==
    \E c \in Clients :
        /\ Answered(c)
        /\ Len(outbound[c]) = 1
        /\ Len(settled[c]) = 2
        /\ Len(responses[c]) = 1

====
